---- MODULE Spec2Model ----
(***************************************************************************)
(* ExaMPM ProblemManager: the time-stepping driver of the material point   *)
(* method, its particle<->node transfer kernels, the initializer and the   *)
(* snapshot writer.                                                        *)
(*                                                                         *)
(* Real numbers are exact rationals <<numerator, denominator>> in lowest   *)
(* terms with a positive denominator, so the conservation statements are   *)
(* read "up to floating-point associativity" as the specification says.    *)
(* Arrays keep the 0-based indices of the source.                          *)
(***************************************************************************)
EXTENDS Integers, Sequences, FiniteSets, TLC

VARIABLES
    pc,             \* position of the driver program
    ndebug,         \* TRUE when the build defines NDEBUG (assert compiled out)
    d_mesh,         \* the mesh the constructor created
    d_has_gravity,
    d_bc,           \* the six boundary conditions, "null" while never set
    d_materials,    \* the material table
    d_particles,    \* the particle set, in storage order
    init_args,      \* ghost: the arguments of the last call of initialize
    num_time_steps, time_step_size, write_frequency,   \* arguments of solve
    step, write_step, time,                            \* locals of solve
    node_m, node_v, node_p, node_imp, node_f_int,      \* nodal fields of solve
    log,            \* ghost: kernels run and snapshots written, in order
    contrib,        \* ghost: nodes that contributed to a particle in this step
    divided,        \* ghost: nodes whose mass was used as a divisor in this step
    dispatch,       \* ghost: material ids that indexed the material table in this step
    starved,        \* ghost: some particle had an adjacent node without mass in this call
    entry_particles,\* ghost: the particle set at the entry of solve
    scattered_p     \* ghost: node_p of this step before its boundary conditions

vars == <<pc, ndebug, d_mesh, d_has_gravity, d_bc, d_materials, d_particles,
          init_args, num_time_steps, time_step_size, write_frequency,
          step, write_step, time, node_m, node_v, node_p, node_imp,
          node_f_int, log, contrib, divided, dispatch, starved,
          entry_particles, scattered_p>>

----------------------------------------------------------------------------
(* Bounds of the model.                                                    *)

MaxSteps == 2
MaxFreq == 2

----------------------------------------------------------------------------
(* Exact arithmetic on double values.                                      *)

RECURSIVE GCD(_, _)
GCD(a, b) == IF b = 0 THEN a ELSE GCD(b, a % b)

Abs(a) == IF a < 0 THEN -a ELSE a

Norm(n, d) ==
    LET g == GCD(Abs(n), Abs(d))
        s == IF d < 0 THEN -1 ELSE 1
    IN  <<s * (n \div g), s * (d \div g)>>

Rat(n, d) == Norm(n, d)
Zero == <<0, 1>>
One == <<1, 1>>

RAdd(a, b) ==
    IF a[1] = 0 THEN b
    ELSE IF b[1] = 0 THEN a
    ELSE LET g == GCD(a[2], b[2])
         IN  Norm(a[1] * (b[2] \div g) + b[1] * (a[2] \div g),
                  a[2] * (b[2] \div g))
RNeg(a) == <<-a[1], a[2]>>
RSub(a, b) == RAdd(a, RNeg(b))
RMul(a, b) ==
    IF a[1] = 0 \/ b[1] = 0 THEN Zero
    ELSE LET x == Norm(a[1], b[2])
             y == Norm(b[1], a[2])
         IN  <<x[1] * y[1], x[2] * y[2]>>
\* a / b; the quotient by zero is not a number
NaN == <<0, 0>>
RDiv(a, b) == IF b[1] = 0 THEN NaN ELSE RMul(a, Norm(b[2], b[1]))
RLeq(a, b) == a[1] * b[2] <= b[1] * a[2]
RPos(a) == a[1] > 0
\* floor of a rational
RFloor(a) == a[1] \div a[2]

nodesPerCell == 8
spatialDimension == 3

Dims == 0 .. spatialDimension - 1
Vec(x, y, z) == [d \in Dims |-> IF d = 0 THEN x ELSE IF d = 1 THEN y ELSE z]
ZeroVec == [d \in Dims |-> Zero]
ZeroMat == [i \in Dims |-> ZeroVec]
Identity == [i \in Dims |-> [j \in Dims |-> IF i = j THEN One ELSE Zero]]

\* TensorTools::determinant of a 3x3 matrix
determinant(t) ==
    RAdd(RSub(RMul(t[0][0], RSub(RMul(t[1][1], t[2][2]), RMul(t[1][2], t[2][1]))),
              RMul(t[0][1], RSub(RMul(t[1][0], t[2][2]), RMul(t[1][2], t[2][0])))),
         RMul(t[0][2], RSub(RMul(t[1][0], t[2][1]), RMul(t[1][1], t[2][0]))))

----------------------------------------------------------------------------
(* The mesh: a uniform structured grid of linear hexahedra.                *)

Mesh(nx, ny, nz, w) == [nx |-> nx, ny |-> ny, nz |-> nz, width |-> w]

totalNumCells(mesh) == mesh.nx * mesh.ny * mesh.nz
totalNumNodes(mesh) == (mesh.nx + 1) * (mesh.ny + 1) * (mesh.nz + 1)
particlesPerCell(order) == order * order * order

NumCellsDim(mesh, d) == IF d = 0 THEN mesh.nx ELSE IF d = 1 THEN mesh.ny ELSE mesh.nz

\* the (i,j,k) triple of a cell index
CellTriple(mesh, c) ==
    Vec(c % mesh.nx, (c \div mesh.nx) % mesh.ny, c \div (mesh.nx * mesh.ny))

\* offset of local node n of a hexahedron along axis d (0 or 1)
LocalOffset(n, d) ==
    IF d = 0 THEN (IF n \in {1, 2, 5, 6} THEN 1 ELSE 0)
    ELSE IF d = 1 THEN (IF n \in {2, 3, 6, 7} THEN 1 ELSE 0)
    ELSE (IF n >= 4 THEN 1 ELSE 0)

NodeId(mesh, i, j, k) ==
    i + j * (mesh.nx + 1) + k * (mesh.nx + 1) * (mesh.ny + 1)

\* the (i,j,k) triple of a node index
NodeTriple(mesh, n) ==
    Vec(n % (mesh.nx + 1), (n \div (mesh.nx + 1)) % (mesh.ny + 1),
        n \div ((mesh.nx + 1) * (mesh.ny + 1)))

\* candidate p of cell c: order^3 evenly spaced points, each with an equal
\* share of the cell volume
CandidateTriple(order, p) ==
    Vec(p % order, (p \div order) % order, p \div (order * order))

initializeParticles(mesh, c, order, p) ==
    LET cell == CellTriple(mesh, c)
        q == CandidateTriple(order, p)
        w == mesh.width
    IN  [r |-> [d \in Dims |->
                  RMul(w, RAdd(Rat(cell[d], 1), Rat(2 * q[d] + 1, 2 * order)))],
         v |-> ZeroVec,
         m |-> Zero,
         volume |-> RMul(RMul(w, RMul(w, w)), Rat(1, particlesPerCell(order))),
         F |-> Identity,
         grad_v |-> ZeroMat,
         stress |-> ZeroMat,
         matid |-> 0,
         node_ids |-> [n \in 0 .. nodesPerCell - 1 |-> 0],
         basis_values |-> [n \in 0 .. nodesPerCell - 1 |-> Zero],
         basis_gradients |-> [n \in 0 .. nodesPerCell - 1 |-> ZeroVec]]

locateParticle(mesh, p) == [d \in Dims |-> RFloor(RDiv(p.r[d], mesh.width))]

\* a particle that left the grid has no cell
InMesh(mesh, cell_id) ==
    \A d \in Dims : 0 <= cell_id[d] /\ cell_id[d] < NumCellsDim(mesh, d)

cellNodeIds(mesh, cell_id) ==
    [n \in 0 .. nodesPerCell - 1 |->
        NodeId(mesh, cell_id[0] + LocalOffset(n, 0),
                     cell_id[1] + LocalOffset(n, 1),
                     cell_id[2] + LocalOffset(n, 2))]

\* reference coordinates in [0,1]^3
mapPhysicalToReferenceFrame(mesh, p, cell_id) ==
    [d \in Dims |-> RSub(RDiv(p.r[d], mesh.width), Rat(cell_id[d], 1))]

\* 1-d linear basis at local node n along d, and its derivative
Basis1(ref, n, d) ==
    IF LocalOffset(n, d) = 1 THEN ref[d] ELSE RSub(One, ref[d])
DBasis1(mesh, n, d) ==
    IF LocalOffset(n, d) = 1 THEN RDiv(One, mesh.width)
    ELSE RNeg(RDiv(One, mesh.width))

shapeFunctionValue(ref) ==
    [n \in 0 .. nodesPerCell - 1 |->
        RMul(Basis1(ref, n, 0), RMul(Basis1(ref, n, 1), Basis1(ref, n, 2)))]

shapeFunctionGradient(mesh, ref) ==
    [n \in 0 .. nodesPerCell - 1 |->
        [d \in Dims |->
            LET a == (d + 1) % 3
                b == (d + 2) % 3
            IN  RMul(DBasis1(mesh, n, d),
                     RMul(Basis1(ref, n, a), Basis1(ref, n, b)))]]

\* nodes on face b of the grid (-x,+x,-y,+y,-z,+z)
OnFace(mesh, b, n) ==
    LET t == NodeTriple(mesh, n)
        d == b \div 2
    IN  IF b % 2 = 0 THEN t[d] = 0 ELSE t[d] = NumCellsDim(mesh, d)

----------------------------------------------------------------------------
(* Geometries, boundary conditions and material models.                    *)

Sphere(center, radius, matid, velocity, density) ==
    [center |-> center, radius |-> radius, matid |-> matid,
     velocity |-> velocity, density |-> density]

\* Sphere::particleInGeometry
particleInGeometry(g, p) ==
    LET ref_p == [d \in Dims |-> RSub(p.r[d], g.center[d])]
    IN  RLeq(RAdd(RAdd(RMul(ref_p[0], ref_p[0]), RMul(ref_p[1], ref_p[1])),
                  RMul(ref_p[2], ref_p[2])),
             RMul(g.radius, g.radius))

\* Geometry::initializeParticle
initializeParticle(g, p) ==
    [p EXCEPT !.v = g.velocity,
              !.m = RMul(g.density, p.volume),
              !.matid = g.matid,
              !.F = Identity]

\* BoundaryCondition::evaluateMomentumCondition on face b: "free" leaves the
\* field alone, "freeslip" zeroes its normal component on the face
evaluateMomentumCondition(kind, mesh, b, field) ==
    [n \in DOMAIN field |->
        IF kind = "freeslip" /\ OnFace(mesh, b, n)
             THEN [field[n] EXCEPT ![b \div 2] = Zero]
        ELSE field[n]]

\* BoundaryCondition::evaluateImpulseCondition on face b
evaluateImpulseCondition(kind, mesh, b, field) ==
    evaluateMomentumCondition(kind, mesh, b, field)

\* StressModel::calculateStress: "zero" is a stress-free material, "linear"
\* answers the deformation F - I with a proportional stress
calculateStress(model, p) ==
    IF model = "linear"
    THEN [p EXCEPT !.stress = [i \in Dims |-> [j \in Dims |->
                                   RSub(p.F[i][j], Identity[i][j])]]]
    ELSE [p EXCEPT !.stress = ZeroMat]

----------------------------------------------------------------------------
(* Inputs.                                                                 *)

Half == Rat(1, 2)

MeshChoices == {Mesh(2, 1, 1, One)}

\* GLeft and GStill are the same ball around the centre of cell 0 with
\* different stamps; GRight is a ball around the centre of cell 1. At order 1
\* each holds the candidate of its cell, at order 2 the second candidate of
\* its cell only.
GLeft == Sphere(Vec(Rat(3, 4), Rat(3, 8), Rat(3, 8)), Rat(1, 3), 1,
                Vec(One, Zero, Zero), Rat(2, 1))
GStill == Sphere(Vec(Rat(3, 4), Rat(3, 8), Rat(3, 8)), Rat(1, 3), 0, ZeroVec, One)
GRight == Sphere(Vec(Rat(5, 4), Rat(3, 8), Rat(3, 8)), Rat(1, 3), 0, ZeroVec, One)
GeometryPool == {GLeft, GStill, GRight}

GeometryLists ==
    {<<>>} \cup {<<g>> : g \in GeometryPool}
           \cup {l \in GeometryPool \X GeometryPool : l[1] # l[2]}

OrderChoices == {1, 2}

NullBC == [b \in 0 .. 5 |-> "null"]
BCChoices ==
    {[b \in 0 .. 5 |-> "free"],
     [b \in 0 .. 5 |-> "freeslip"]}

MaterialChoices == {<<>>, <<"zero">>, <<"zero", "zero">>}

DtChoices == {Zero, Half}

----------------------------------------------------------------------------
(* Construction and configuration.                                         *)

NoField == <<>>

\* ProblemManager::ProblemManager
Init ==
    /\ pc = "setup"
    /\ ndebug \in BOOLEAN
    /\ d_mesh \in MeshChoices
    /\ d_has_gravity \in BOOLEAN
    /\ d_bc = NullBC
    /\ d_materials = <<>>
    /\ d_particles = <<>>
    /\ init_args = [called |-> FALSE, geometry |-> <<>>, order |-> 0]
    /\ num_time_steps = 0
    /\ time_step_size = Zero
    /\ write_frequency = 1
    /\ step = 0
    /\ write_step = 0
    /\ time = Zero
    /\ node_m = NoField
    /\ node_v = NoField
    /\ node_p = NoField
    /\ node_imp = NoField
    /\ node_f_int = NoField
    /\ log = <<>>
    /\ contrib = {}
    /\ divided = {}
    /\ dispatch = {}
    /\ starved = FALSE
    /\ entry_particles = <<>>
    /\ scattered_p = NoField

solveVars == <<num_time_steps, time_step_size, write_frequency, step,
               write_step, time, node_m, node_v, node_p, node_imp,
               node_f_int, log, contrib, divided, dispatch, starved,
               entry_particles, scattered_p>>

\* ProblemManager::setBoundaryConditions
setBoundaryConditions(bc) ==
    /\ pc = "setup"
    /\ d_bc' = bc
    /\ UNCHANGED <<pc, ndebug, d_mesh, d_has_gravity, d_materials,
                   d_particles, init_args, solveVars>>

\* ProblemManager::setMaterialModels
setMaterialModels(materials) ==
    /\ pc = "setup"
    /\ d_materials' = materials
    /\ UNCHANGED <<pc, ndebug, d_mesh, d_has_gravity, d_bc, d_particles,
                   init_args, solveVars>>

\* variant: the loop over the geometries without its break
RECURSIVE CheckGeometries_noBreak(_, _, _)
CheckGeometries_noBreak(geometry, g, cand) ==
    IF g > Len(geometry) THEN <<>>
    ELSE IF particleInGeometry(geometry[g], cand)
         THEN <<initializeParticle(geometry[g], cand)>>
              \o CheckGeometries_noBreak(geometry, g + 1,
                                         initializeParticle(geometry[g], cand))
         ELSE CheckGeometries_noBreak(geometry, g + 1, cand)

\* the loop over the geometries for one candidate: the particles it appends
RECURSIVE CheckGeometries(_, _, _)
CheckGeometries(geometry, g, cand) ==
    IF g > Len(geometry) THEN <<>>
    ELSE IF particleInGeometry(geometry[g], cand)
         THEN <<initializeParticle(geometry[g], cand)>>
         ELSE CheckGeometries(geometry, g + 1, cand)

\* the loops over the cells and over the candidates of a cell
RECURSIVE CheckCandidates(_, _, _, _, _, _)
CheckCandidates(mesh, geometry, order, c, p, particles) ==
    IF c >= totalNumCells(mesh) THEN particles
    ELSE IF p >= particlesPerCell(order)
         THEN CheckCandidates(mesh, geometry, order, c + 1, 0, particles)
         ELSE CheckCandidates(mesh, geometry, order, c, p + 1,
                  particles \o CheckGeometries(geometry, 1,
                                   initializeParticles(mesh, c, order, p)))

\* ProblemManager::initialize, applied to an empty particle set
initialize(geometry, order) ==
    /\ pc = "setup"
    /\ d_particles = <<>>
    /\ d_particles' = CheckCandidates(d_mesh, geometry, order, 0, 0, d_particles)
    /\ init_args' = [called |-> TRUE, geometry |-> geometry, order |-> order]
    /\ UNCHANGED <<pc, ndebug, d_mesh, d_has_gravity, d_bc, d_materials,
                   solveVars>>

----------------------------------------------------------------------------
(* solve: entry, the time loop and the snapshot writer.                    *)

Nodes == 0 .. totalNumNodes(d_mesh) - 1
Locals == 0 .. nodesPerCell - 1
ParticleIds == 1 .. Len(d_particles)

configVars == <<ndebug, d_mesh, d_has_gravity, d_bc, d_materials, init_args,
                num_time_steps, time_step_size, write_frequency,
                entry_particles>>

Event(op, s, index) == [op |-> op, step |-> s, index |-> index]

\* ProblemManager::writeTimeStepToFile: one file per call, named by the index
writeTimeStepToFile(l, s, index) == Append(l, Event("write", s, index))

\* the index of the snapshot written after the loop
EndStateIndex(ws) == ws + 1

\* variant: the periodic test on step instead of step+1
IsWriteStep_offByOne(s, w) == s % w = 0

\* the test that makes a completed step a periodic write
IsWriteStep(s, w) == (s + 1) % w = 0

\* solve, up to the loop: allocate the nodal fields, write the initial state
solve(n, dt, w) ==
    /\ pc = "setup"
    /\ num_time_steps' = n
    /\ time_step_size' = dt
    /\ write_frequency' = w
    /\ node_m' = [k \in Nodes |-> Zero]
    /\ node_v' = [k \in Nodes |-> ZeroVec]
    /\ node_p' = [k \in Nodes |-> ZeroVec]
    /\ node_imp' = [k \in Nodes |-> ZeroVec]
    /\ node_f_int' = [k \in Nodes |-> ZeroVec]
    /\ time' = Zero
    /\ write_step' = 0
    /\ step' = 0
    /\ log' = writeTimeStepToFile(log, 0, 0)
    /\ pc' = "loop"
    /\ starved' = FALSE
    /\ entry_particles' = d_particles
    /\ scattered_p' = [k \in Nodes |-> ZeroVec]
    /\ UNCHANGED <<ndebug, d_mesh, d_has_gravity, d_bc, d_materials,
                   d_particles, init_args, contrib, divided, dispatch>>

\* the loop test, and the write of the end state when the loop is over
LoopHead ==
    /\ pc = "loop"
    /\ IF step < num_time_steps
       THEN /\ time' = RAdd(time, time_step_size)
            /\ pc' = "locate"
            /\ UNCHANGED log
       ELSE /\ log' = writeTimeStepToFile(log, step, EndStateIndex(write_step))
            /\ pc' = "done"
            /\ UNCHANGED time
    /\ UNCHANGED <<scattered_p, configVars, d_particles, step, write_step, node_m, node_v,
                   node_p, node_imp, node_f_int, contrib, divided, dispatch, starved>>

\* variant: the nodal velocity is computed before the particle update
AfterKernel_velocityFirst(k) ==
    CASE k = "locate" -> "mass"
      [] k = "mass" -> "momentum"
      [] k = "momentum" -> "momentum_bc"
      [] k = "momentum_bc" -> "forces"
      [] k = "forces" -> "impulse"
      [] k = "impulse" -> "impulse_bc"
      [] k = "impulse_bc" -> "velocity"
      [] k = "velocity" -> "velocity_bc"
      [] k = "velocity_bc" -> "update"
      [] k = "update" -> "gradients"
      [] k = "gradients" -> "stress"
      [] k = "stress" -> "write"

\* the position of solve after each kernel of the step
AfterKernel(k) ==
    CASE k = "locate" -> "mass"
      [] k = "mass" -> "momentum"
      [] k = "momentum" -> "momentum_bc"
      [] k = "momentum_bc" -> "forces"
      [] k = "forces" -> "impulse"
      [] k = "impulse" -> "impulse_bc"
      [] k = "impulse_bc" -> "update"
      [] k = "update" -> "velocity"
      [] k = "velocity" -> "velocity_bc"
      [] k = "velocity_bc" -> "gradients"
      [] k = "gradients" -> "stress"
      [] k = "stress" -> "write"

\* a kernel ran to its end in the current step
Ran(k) ==
    /\ log' = Append(log, Event(k, step + 1, -1))
    /\ pc' = AfterKernel(k)

\* the end of the loop body: the periodic write, then ++step
WriteStep ==
    /\ pc = "write"
    /\ IF IsWriteStep(step, write_frequency)
       THEN /\ write_step' = write_step + 1
            /\ log' = writeTimeStepToFile(log, step + 1, write_step + 1)
       ELSE UNCHANGED <<write_step, log>>
    /\ step' = step + 1
    /\ pc' = "loop"
    /\ UNCHANGED <<scattered_p, configVars, d_particles, time, node_m, node_v, node_p,
                   node_imp, node_f_int, contrib, divided, dispatch, starved>>

----------------------------------------------------------------------------
(* The kernels of a step.                                                  *)

\* one particle of locateParticles
Locate(mesh, p) ==
    LET cell_id == locateParticle(mesh, p)
        ref_coords == mapPhysicalToReferenceFrame(mesh, p, cell_id)
    IN  [p EXCEPT !.node_ids = cellNodeIds(mesh, cell_id),
                  !.basis_values = shapeFunctionValue(ref_coords),
                  !.basis_gradients = shapeFunctionGradient(mesh, ref_coords)]

\* ProblemManager::locateParticles; a particle outside the grid stops the run
locateParticles ==
    /\ pc = "locate"
    /\ IF \A i \in ParticleIds : InMesh(d_mesh, locateParticle(d_mesh, d_particles[i]))
       THEN /\ d_particles' = [i \in ParticleIds |-> Locate(d_mesh, d_particles[i])]
            /\ Ran("locate")
       ELSE /\ pc' = "lost"
            /\ UNCHANGED <<d_particles, log>>
    /\ contrib' = {}
    /\ divided' = {}
    /\ dispatch' = {}
    /\ UNCHANGED <<scattered_p, configVars, step, write_step, time, node_m, node_v, node_p,
                   node_imp, node_f_int, starved>>

\* variant: the nodal mass is not reset
ResetMass_keep(m) == m

\* std::fill of the nodal mass with 0.0
ResetMass(m) == [k \in DOMAIN m |-> Zero]

\* the loops of calculateNodalMass over the particles i.. and the local nodes n..
RECURSIVE AssembleMass(_, _, _, _)
AssembleMass(m, particles, i, n) ==
    IF i > Len(particles) THEN m
    ELSE IF n >= nodesPerCell THEN AssembleMass(m, particles, i + 1, 0)
    ELSE LET p == particles[i]
             node_id == p.node_ids[n]
         IN  AssembleMass(
                 [m EXCEPT ![node_id] = RAdd(@, RMul(p.basis_values[n], p.m))],
                 particles, i, n + 1)

\* ProblemManager::calculateNodalMass
calculateNodalMass ==
    /\ pc = "mass"
    /\ node_m' = AssembleMass(ResetMass(node_m), d_particles, 1, 0)
    /\ starved' = (starved \/ \E i \in ParticleIds, n \in Locals :
                                  node_m'[d_particles[i].node_ids[n]] = Zero)
    /\ Ran("mass")
    /\ UNCHANGED <<scattered_p, configVars, d_particles, step, write_step, time, node_v,
                   node_p, node_imp, node_f_int, contrib, divided, dispatch>>

\* variant: the reset appends an element instead of filling in place
ResetField_grow(f) == [k \in 0 .. Cardinality(DOMAIN f) |-> ZeroVec]

\* std::fill of a nodal vector field with 0.0
ResetField(f) == [k \in DOMAIN f |-> ZeroVec]

\* variant: the velocity is scattered without the particle mass
MomentumTerm_noMass(p, n, d) == RMul(p.v[d], p.basis_values[n])

\* the contribution m * v[d] * basis of a particle to its local node n
MomentumTerm(p, n, d) == RMul(RMul(p.m, p.v[d]), p.basis_values[n])

\* the accumulation loops shared by calculateNodalMomentum and
\* calculateNodalVelocity
RECURSIVE AssembleMomentum(_, _, _, _)
AssembleMomentum(f, particles, i, n) ==
    IF i > Len(particles) THEN f
    ELSE IF n >= nodesPerCell THEN AssembleMomentum(f, particles, i + 1, 0)
    ELSE LET p == particles[i]
             node_id == p.node_ids[n]
         IN  AssembleMomentum(
                 [f EXCEPT ![node_id] =
                     [d \in Dims |-> RAdd(@[d], MomentumTerm(p, n, d))]],
                 particles, i, n + 1)

\* calculateNodalMomentum up to the boundary conditions
calculateNodalMomentum ==
    /\ pc = "momentum"
    /\ node_p' = AssembleMomentum(ResetField(node_p), d_particles, 1, 0)
    /\ scattered_p' = node_p'
    /\ Ran("momentum")
    /\ UNCHANGED <<configVars, d_particles, step, write_step, time, node_m,
                   node_v, node_imp, node_f_int, contrib, divided, dispatch, starved>>

\* the loop over the six faces, for b .. 5
RECURSIVE MomentumConditions(_, _, _, _)
MomentumConditions(bc, mesh, b, field) ==
    IF b >= 6 THEN field
    ELSE MomentumConditions(bc, mesh, b + 1,
             evaluateMomentumCondition(bc[b], mesh, b, field))

RECURSIVE ImpulseConditions(_, _, _, _)
ImpulseConditions(bc, mesh, b, field) ==
    IF b >= 6 THEN field
    ELSE ImpulseConditions(bc, mesh, b + 1,
             evaluateImpulseCondition(bc[b], mesh, b, field))

\* a boundary condition that was never set is a null pointer: the call
\* through it ends the process
IsNull(bc) == \E b \in 0 .. 5 : bc[b] = "null"

\* the boundary conditions of calculateNodalMomentum
MomentumBC ==
    /\ pc = "momentum_bc"
    /\ IF IsNull(d_bc)
       THEN /\ pc' = "crashed"
            /\ UNCHANGED <<node_p, log>>
       ELSE /\ node_p' = MomentumConditions(d_bc, d_mesh, 0, node_p)
            /\ Ran("momentum_bc")
    /\ UNCHANGED <<scattered_p, configVars, d_particles, step, write_step, time, node_m,
                   node_v, node_imp, node_f_int, contrib, divided, dispatch, starved>>

\* the assertion of calculateInternalNodalForces
ValidMatid(matid, materials) == 0 <= matid /\ matid < Len(materials)

\* the force of a particle on its local node n: minus the stress divergence
ForceTerm(p, n, i, j) ==
    RMul(RMul(p.volume, p.basis_gradients[n][j]), p.stress[j][i])

RECURSIVE AssembleForces(_, _, _, _)
AssembleForces(f, particles, i, n) ==
    IF i > Len(particles) THEN f
    ELSE IF n >= nodesPerCell THEN AssembleForces(f, particles, i + 1, 0)
    ELSE LET p == particles[i]
             node_id == p.node_ids[n]
         IN  AssembleForces(
                 [f EXCEPT ![node_id] =
                     [d \in Dims |->
                         RSub(RSub(RSub(@[d], ForceTerm(p, n, d, 0)),
                                   ForceTerm(p, n, d, 1)),
                              ForceTerm(p, n, d, 2))]],
                 particles, i, n + 1)

\* the assertion is checked unless the build defines NDEBUG
AssertionFails(nd, particles, materials) ==
    /\ ~nd
    /\ \E i \in 1 .. Len(particles) : ~ValidMatid(particles[i].matid, materials)

\* ProblemManager::calculateInternalNodalForces
calculateInternalNodalForces ==
    /\ pc = "forces"
    /\ IF AssertionFails(ndebug, d_particles, d_materials)
       THEN /\ pc' = "aborted"
            /\ UNCHANGED <<node_f_int, log>>
       ELSE /\ node_f_int' = AssembleForces(ResetField(node_f_int), d_particles, 1, 0)
            /\ Ran("forces")
    /\ UNCHANGED <<scattered_p, configVars, d_particles, step, write_step, time, node_m,
                   node_v, node_p, node_imp, contrib, divided, dispatch, starved>>

\* the acceleration of gravity, 9.81
Gravity == Rat(981, 100)

\* variant: gravity is added whatever d_has_gravity says
Impulse_alwaysGravity(gravity, delta_t, f, m) ==
    [d \in Dims |-> IF d = 2
                    THEN RSub(RMul(delta_t, f[d]), RMul(RMul(delta_t, m), Gravity))
                    ELSE RMul(delta_t, f[d])]

\* the impulse of a node before the boundary conditions
Impulse(gravity, delta_t, f, m) ==
    LET imp == [d \in Dims |-> RMul(delta_t, f[d])]
    IN  IF gravity
        THEN [imp EXCEPT ![2] = RSub(@, RMul(RMul(delta_t, m), Gravity))]
        ELSE imp

\* calculateNodalImpulse up to the boundary conditions
calculateNodalImpulse ==
    /\ pc = "impulse"
    /\ node_imp' = [k \in Nodes |->
                       Impulse(d_has_gravity, time_step_size, node_f_int[k], node_m[k])]
    /\ Ran("impulse")
    /\ UNCHANGED <<scattered_p, configVars, d_particles, step, write_step, time, node_m,
                   node_v, node_p, node_f_int, contrib, divided, dispatch, starved>>

\* the boundary conditions of calculateNodalImpulse
ImpulseBC ==
    /\ pc = "impulse_bc"
    /\ IF IsNull(d_bc)
       THEN /\ pc' = "crashed"
            /\ UNCHANGED <<node_imp, log>>
       ELSE /\ node_imp' = ImpulseConditions(d_bc, d_mesh, 0, node_imp)
            /\ Ran("impulse_bc")
    /\ UNCHANGED <<scattered_p, configVars, d_particles, step, write_step, time, node_m,
                   node_v, node_p, node_f_int, contrib, divided, dispatch, starved>>

\* variant: the test is node_m >= 0.0
HasMass_orZero(m) == m[1] >= 0

\* the test "node_m[node_id] > 0.0" of the particle update and of the
\* nodal velocity
HasMass(m) == RPos(m)

\* variant: the particle velocity is not incremented
RECURSIVE UpdateParticle_positionOnly(_, _, _, _, _, _)
UpdateParticle_positionOnly(p, n, imp, mom, m, delta_t) ==
    IF n >= nodesPerCell THEN p
    ELSE LET node_id == p.node_ids[n]
         IN  IF m[node_id][1] > 0
             THEN UpdateParticle_positionOnly(
                      [p EXCEPT
                         !.r = [d \in Dims |->
                                  RAdd(@[d],
                                       RDiv(RMul(RMul(delta_t,
                                                      RAdd(mom[node_id][d], imp[node_id][d])),
                                                 p.basis_values[n]),
                                            m[node_id]))]],
                      n + 1, imp, mom, m, delta_t)
             ELSE UpdateParticle_positionOnly(p, n + 1, imp, mom, m, delta_t)

\* variant: the position increment leaves out the nodal momentum
RECURSIVE UpdateParticle_impulseOnly(_, _, _, _, _, _)
UpdateParticle_impulseOnly(p, n, imp, mom, m, delta_t) ==
    IF n >= nodesPerCell THEN p
    ELSE LET node_id == p.node_ids[n]
         IN  IF m[node_id][1] > 0
             THEN UpdateParticle_impulseOnly(
                      [p EXCEPT
                         !.r = [d \in Dims |->
                                  RAdd(@[d],
                                       RDiv(RMul(RMul(delta_t, imp[node_id][d]),
                                                 p.basis_values[n]),
                                            m[node_id]))],
                         !.v = [d \in Dims |->
                                  RAdd(@[d],
                                       RDiv(RMul(imp[node_id][d], p.basis_values[n]),
                                            m[node_id]))]],
                      n + 1, imp, mom, m, delta_t)
             ELSE UpdateParticle_impulseOnly(p, n + 1, imp, mom, m, delta_t)

\* the loop of updateParticlePositionAndVelocity over the local nodes n.. of
\* one particle
RECURSIVE UpdateParticle(_, _, _, _, _, _)
UpdateParticle(p, n, imp, mom, m, delta_t) ==
    IF n >= nodesPerCell THEN p
    ELSE LET node_id == p.node_ids[n]
         IN  IF HasMass(m[node_id])
             THEN UpdateParticle(
                      [p EXCEPT
                         !.r = [d \in Dims |->
                                  RAdd(@[d],
                                       RDiv(RMul(RMul(delta_t,
                                                      RAdd(mom[node_id][d], imp[node_id][d])),
                                                 p.basis_values[n]),
                                            m[node_id]))],
                         !.v = [d \in Dims |->
                                  RAdd(@[d],
                                       RDiv(RMul(imp[node_id][d], p.basis_values[n]),
                                            m[node_id]))]],
                      n + 1, imp, mom, m, delta_t)
             ELSE UpdateParticle(p, n + 1, imp, mom, m, delta_t)

\* the adjacent nodes the particle update takes a contribution from
Contributors(particles, m) ==
    {particles[i].node_ids[n] : i \in 1 .. Len(particles), n \in Locals}
        \cap {k \in DOMAIN m : HasMass(m[k])}

\* ProblemManager::updateParticlePositionAndVelocity
updateParticlePositionAndVelocity ==
    /\ pc = "update"
    /\ d_particles' = [i \in ParticleIds |->
                          UpdateParticle(d_particles[i], 0, node_imp, node_p,
                                         node_m, time_step_size)]
    /\ contrib' = contrib \cup Contributors(d_particles, node_m)
    /\ divided' = divided \cup Contributors(d_particles, node_m)
    /\ Ran("update")
    /\ UNCHANGED <<scattered_p, configVars, step, write_step, time, node_m, node_v, node_p,
                   node_imp, node_f_int, dispatch, starved>>

\* the division loop of calculateNodalVelocity
DivideByMass(v, m) ==
    [k \in DOMAIN v |->
        IF HasMass(m[k]) THEN [d \in Dims |-> RDiv(v[k][d], m[k])]
        ELSE ZeroVec]

\* calculateNodalVelocity up to the boundary conditions
calculateNodalVelocity ==
    /\ pc = "velocity"
    /\ node_v' = DivideByMass(
                     AssembleMomentum(ResetField(node_v), d_particles, 1, 0),
                     node_m)
    /\ divided' = divided \cup {k \in Nodes : HasMass(node_m[k])}
    /\ Ran("velocity")
    /\ UNCHANGED <<scattered_p, configVars, d_particles, step, write_step, time, node_m,
                   node_p, node_imp, node_f_int, contrib, dispatch, starved>>

\* the boundary conditions of calculateNodalVelocity, applied to node_v
VelocityBC ==
    /\ pc = "velocity_bc"
    /\ IF IsNull(d_bc)
       THEN /\ pc' = "crashed"
            /\ UNCHANGED <<node_v, log>>
       ELSE /\ node_v' = MomentumConditions(d_bc, d_mesh, 0, node_v)
            /\ Ran("velocity_bc")
    /\ UNCHANGED <<scattered_p, configVars, d_particles, step, write_step, time, node_m,
                   node_p, node_imp, node_f_int, contrib, divided, dispatch, starved>>

\* the velocity gradient sum over the local nodes n..
RECURSIVE GradV(_, _, _, _, _)
GradV(p, v, i, j, n) ==
    IF n >= nodesPerCell THEN Zero
    ELSE RAdd(RMul(p.basis_gradients[n][i], v[p.node_ids[n]][j]),
              GradV(p, v, i, j, n + 1))

\* one particle of updateParticleGradients
UpdateGradients(p, v, delta_t) ==
    LET grad_v == [i \in Dims |-> [j \in Dims |-> GradV(p, v, i, j, 0)]]
        work == [i \in Dims |-> [j \in Dims |-> RMul(grad_v[i][j], delta_t)]]
        delta_F == [i \in Dims |-> [j \in Dims |->
                       RAdd(RAdd(RMul(work[i][0], p.F[0][j]),
                                 RMul(work[i][1], p.F[1][j])),
                            RMul(work[i][2], p.F[2][j]))]]
        work1 == [i \in Dims |-> [j \in Dims |->
                       IF i = j THEN RAdd(work[i][j], One) ELSE work[i][j]]]
    IN  [p EXCEPT !.grad_v = grad_v,
                  !.F = [i \in Dims |-> [j \in Dims |-> RAdd(@[i][j], delta_F[i][j])]],
                  !.volume = RMul(@, determinant(work1))]

\* ProblemManager::updateParticleGradients
updateParticleGradients ==
    /\ pc = "gradients"
    /\ d_particles' = [i \in ParticleIds |->
                          UpdateGradients(d_particles[i], node_v, time_step_size)]
    /\ Ran("gradients")
    /\ UNCHANGED <<scattered_p, configVars, step, write_step, time, node_m, node_v, node_p,
                   node_imp, node_f_int, contrib, divided, dispatch, starved>>

\* ProblemManager::updateParticleStressStrain. d_materials[p.matid] is not
\* checked here: an index out of range is undefined behaviour, which either
\* ends the process or returns without a stress for that particle
updateParticleStressStrain ==
    /\ pc = "stress"
    /\ dispatch' = dispatch \cup {d_particles[i].matid : i \in ParticleIds}
    /\ IF \A i \in ParticleIds : ValidMatid(d_particles[i].matid, d_materials)
       THEN /\ d_particles' = [i \in ParticleIds |->
                                 calculateStress(d_materials[d_particles[i].matid + 1],
                                                 d_particles[i])]
            /\ Ran("stress")
       ELSE \/ /\ pc' = "crashed"
               /\ UNCHANGED <<d_particles, log>>
            \/ /\ d_particles' = [i \in ParticleIds |->
                     IF ValidMatid(d_particles[i].matid, d_materials)
                     THEN calculateStress(d_materials[d_particles[i].matid + 1],
                                          d_particles[i])
                     ELSE d_particles[i]]
               /\ Ran("stress")
    /\ UNCHANGED <<scattered_p, configVars, step, write_step, time, node_m, node_v, node_p,
                   node_imp, node_f_int, contrib, divided, starved>>

Next ==
    \/ \E bc \in BCChoices : setBoundaryConditions(bc)
    \/ \E materials \in MaterialChoices : setMaterialModels(materials)
    \/ \E geometry \in GeometryLists, order \in OrderChoices :
           initialize(geometry, order)
    \/ \E n \in 0 .. MaxSteps, dt \in DtChoices, w \in 1 .. MaxFreq :
           solve(n, dt, w)
    \/ LoopHead
    \/ locateParticles
    \/ calculateNodalMass
    \/ calculateNodalMomentum
    \/ MomentumBC
    \/ calculateInternalNodalForces
    \/ calculateNodalImpulse
    \/ ImpulseBC
    \/ updateParticlePositionAndVelocity
    \/ calculateNodalVelocity
    \/ VelocityBC
    \/ updateParticleGradients
    \/ updateParticleStressStrain
    \/ WriteStep

Spec == Init /\ [][Next]_vars

----------------------------------------------------------------------------
(* Helpers of the properties.                                              *)

InSolve == pc # "setup"

IsWrite(e) == e.op = "write"
Writes == SelectSeq(log, IsWrite)

\* the kernels of one step, in the order of the specification
KernelOrder ==
    <<"locate", "mass", "momentum", "momentum_bc", "forces", "impulse",
      "impulse_bc", "update", "velocity", "velocity_bc", "gradients", "stress">>

RECURSIVE ExpectedSteps(_, _, _)
ExpectedSteps(s, n, w) ==
    IF s > n THEN <<>>
    ELSE [k \in 1 .. Len(KernelOrder) |-> Event(KernelOrder[k], s, -1)]
         \o (IF s % w = 0 THEN <<Event("write", s, s \div w)>> ELSE <<>>)
         \o ExpectedSteps(s + 1, n, w)

\* everything a complete call solve(n, dt, file, w) runs and writes
ExpectedLog(n, w) ==
    <<Event("write", 0, 0)>> \o ExpectedSteps(1, n, w)
                             \o <<Event("write", n, n \div w + 1)>>

IsPrefix(a, b) == Len(a) <= Len(b) /\ a = SubSeq(b, 1, Len(a))

RECURSIVE SumTo(_, _)
\* the sum of f[0] .. f[k]
SumTo(f, k) == IF k < 0 THEN Zero ELSE RAdd(f[k], SumTo(f, k - 1))

SumNodes(f) == SumTo(f, totalNumNodes(d_mesh) - 1)
SumParticles(f) == SumTo([i \in 0 .. Len(d_particles) - 1 |-> f[i + 1]],
                         Len(d_particles) - 1)

\* partition of unity on every particle
BasisSumsToOne ==
    \A i \in ParticleIds : SumTo(d_particles[i].basis_values, nodesPerCell - 1) = One
GradientsSumToZero ==
    \A i \in ParticleIds : \A d \in Dims :
        SumTo([n \in Locals |-> d_particles[i].basis_gradients[n][d]],
              nodesPerCell - 1) = Zero

----------------------------------------------------------------------------
(* C1: snapshot cadence. One call solve(N, dt, file, W) writes the          *)
(* snapshots 0, 1, ..., N \div W + 1 in this order and none twice: 0 before *)
(* the first step, k right after step k*W is complete, and N \div W + 1     *)
(* after the last step, 1 + N \div W + 1 files in all.                      *)
C1_SnapshotCadence ==
    InSolve =>
        /\ \A i \in 1 .. Len(Writes) : Writes[i].index = i - 1
        /\ Len(log) >= 1 /\ log[1] = Event("write", 0, 0)
        /\ \A i \in 2 .. Len(Writes) :
               \/ Writes[i].step = (i - 1) * write_frequency
               \/ pc = "done" /\ i = Len(Writes)
        /\ \A j \in 2 .. Len(log) :
               (IsWrite(log[j]) /\ ~(pc = "done" /\ j = Len(log)))
                   => log[j - 1] = Event("stress", log[j].index * write_frequency, -1)
        /\ pc = "done" =>
               /\ Len(Writes) = 1 + (num_time_steps \div write_frequency) + 1
               /\ log[Len(log)] = Event("write", num_time_steps,
                                        (num_time_steps \div write_frequency) + 1)
        /\ pc \in {"loop", "locate"} =>
               Len(Writes) = 1 + (step \div write_frequency)

C1_Witness ==
    /\ pc = "done"
    /\ num_time_steps = 2
    /\ write_frequency = 2
    /\ Len(Writes) = 3

(* C2: kernel order. In every step the kernels run once each in the order  *)
(* locate, mass, momentum (+BC), forces, impulse (+BC), particle update,   *)
(* nodal velocity (+BC), gradients, stress; no kernel of the next step     *)
(* starts before the stress update, and a periodic snapshot follows the    *)
(* stress update of its step.                                              *)
C2_KernelOrder ==
    InSolve =>
        /\ IsPrefix(log, ExpectedLog(num_time_steps, write_frequency))
        /\ pc = "done" => log = ExpectedLog(num_time_steps, write_frequency)
        /\ pc = "write" => Len(log) >= Len(KernelOrder)
                           /\ log[Len(log)] = Event("stress", step + 1, -1)

C2_Witness ==
    /\ pc = "done"
    /\ num_time_steps = 2
    /\ write_frequency = 1
    /\ Len(log) = 2 * Len(KernelOrder) + 4
    /\ Len(d_particles) > 0

(* C3: mass conservation. Right after calculateNodalMass, when the basis   *)
(* values of each particle sum to 1, the nodal masses sum to the particle  *)
(* masses, in the first step and in every later one.                       *)
C3_MassConservation ==
    (pc = "momentum" /\ BasisSumsToOne) =>
        SumNodes(node_m) = SumParticles([i \in ParticleIds |-> d_particles[i].m])

C3_Witness ==
    /\ pc = "momentum"
    /\ step = 1
    /\ Len(d_particles) = 2
    /\ BasisSumsToOne
    /\ \E k \in Nodes : node_m[k] # Zero

(* C4: momentum conservation before the boundary conditions. After the     *)
(* accumulation loop of calculateNodalMomentum, when the basis values of   *)
(* each particle sum to 1, the nodal momenta sum per axis to the sum of    *)
(* m * v[d] over the particles.                                            *)
C4_MomentumConservation ==
    (pc = "momentum_bc" /\ BasisSumsToOne) =>
        \A d \in Dims :
            SumNodes([k \in Nodes |-> node_p[k][d]]) =
            SumParticles([i \in ParticleIds |->
                             RMul(d_particles[i].m, d_particles[i].v[d])])

C4_Witness ==
    /\ pc = "momentum_bc"
    /\ step = 1
    /\ Len(d_particles) = 2
    /\ BasisSumsToOne
    /\ d_particles[1].v # d_particles[2].v
    /\ d_particles[1].v[0] # Zero

(* C5: zero-mass guard. A node whose mass is zero contributes to no        *)
(* particle in updateParticlePositionAndVelocity, its mass is never a      *)
(* divisor, and calculateNodalVelocity leaves its velocity zero before the *)
(* boundary conditions.                                                    *)
C5_ZeroMassGuard ==
    \A k \in DOMAIN node_m :
        (node_m[k] = Zero /\ pc \in {"velocity", "velocity_bc", "gradients",
                                      "stress", "write"}) =>
            /\ k \notin contrib
            /\ k \notin divided
            /\ pc = "velocity_bc" => node_v[k] = ZeroVec

C5_Witness ==
    /\ pc = "velocity_bc"
    /\ contrib # {}
    /\ \E i \in ParticleIds, n \in Locals :
           node_m[d_particles[i].node_ids[n]] = Zero

----------------------------------------------------------------------------
\* the candidates of the mesh by cell index, then by candidate index
AllCandidates(mesh, order) ==
    [k \in 1 .. totalNumCells(mesh) * particlesPerCell(order) |->
        initializeParticles(mesh, (k - 1) \div particlesPerCell(order), order,
                            (k - 1) % particlesPerCell(order))]

\* the geometries of the list that contain a candidate
Containing(geometry, cand) ==
    {g \in 1 .. Len(geometry) : particleInGeometry(geometry[g], cand)}

\* what initialize is to leave in an empty particle set
ExpectedParticles(mesh, geometry, order) ==
    LET InSome(cand) == Containing(geometry, cand) # {}
        First(cand) == CHOOSE g \in Containing(geometry, cand) :
                           \A h \in Containing(geometry, cand) : g <= h
        kept == SelectSeq(AllCandidates(mesh, order), InSome)
    IN  [k \in 1 .. Len(kept) |->
            initializeParticle(geometry[First(kept[k])], kept[k])]

(* C6: initialize on an empty particle set leaves exactly the candidates   *)
(* that lie in some geometry, by cell index and then by candidate index,   *)
(* each once and stamped by the first geometry of the list containing it.  *)
C6_InitializeFirstMatch ==
    (pc = "setup" /\ init_args.called) =>
        d_particles = ExpectedParticles(d_mesh, init_args.geometry, init_args.order)

C6_Witness ==
    /\ pc = "setup"
    /\ init_args.called
    /\ init_args.order = 2
    /\ init_args.geometry = <<GLeft, GStill>>
    /\ Len(d_particles) = 1
    /\ d_particles[1].matid = GLeft.matid
    /\ d_particles[1].v = GLeft.velocity
    /\ \E k \in DOMAIN AllCandidates(d_mesh, 2) :
           Containing(init_args.geometry, AllCandidates(d_mesh, 2)[k]) = {}

\* the state of rest at the entry of solve: no velocity, no stress
AtRest(particles) ==
    \A i \in 1 .. Len(particles) :
        particles[i].v = ZeroVec /\ particles[i].stress = ZeroMat

\* the boundary conditions that change no field
FreeBC == \A b \in 0 .. 5 : d_bc[b] = "free"

(* C7: identity at rest. With no velocity, no stress and no gravity, at    *)
(* every point of solve every particle still has its initial position,     *)
(* velocity, deformation gradient and volume.                              *)
C7_IdentityAtRest ==
    (InSolve /\ ~d_has_gravity /\ AtRest(entry_particles)) =>
        /\ Len(d_particles) = Len(entry_particles)
        /\ \A i \in ParticleIds :
               /\ d_particles[i].r = entry_particles[i].r
               /\ d_particles[i].v = entry_particles[i].v
               /\ d_particles[i].F = entry_particles[i].F
               /\ d_particles[i].volume = entry_particles[i].volume

C7_Witness ==
    /\ pc = "done"
    /\ num_time_steps = 2
    /\ time_step_size = Half
    /\ ~d_has_gravity
    /\ ~IsNull(d_bc)
    /\ Len(entry_particles) = 2
    /\ AtRest(entry_particles)

\* the preconditions of the rigid translation
RigidTranslation ==
    /\ ~d_has_gravity
    /\ FreeBC
    /\ \A i \in 1 .. Len(entry_particles) :
           /\ entry_particles[i].v = Vec(One, Zero, Zero)
           /\ entry_particles[i].stress = ZeroMat
    /\ \A i \in ParticleIds : d_particles[i].stress = ZeroMat
    /\ BasisSumsToOne
    /\ GradientsSumToZero

\* every particle moved by s steps of size dt along x and is otherwise as
\* it was at the entry of solve
Translated(s) ==
    \A i \in ParticleIds :
        /\ d_particles[i].r =
               [entry_particles[i].r EXCEPT
                   ![0] = RAdd(@, RMul(Rat(s, 1), time_step_size))]
        /\ d_particles[i].v = Vec(One, Zero, Zero)
        /\ d_particles[i].F = Identity
        /\ d_particles[i].volume = entry_particles[i].volume

(* C8 as stated: under the preconditions of the rigid translation every    *)
(* particle has, after each completed step, advanced by dt in x with its   *)
(* velocity, F = I and its volume unchanged.                               *)
C8_RigidTranslation_Original ==
    (pc \in {"loop", "done"} /\ RigidTranslation) => Translated(step)

(* C8 as amended: the same, provided that in each step so far every node   *)
(* adjacent to a particle had a positive nodal mass.                       *)
C8_RigidTranslation ==
    (pc \in {"loop", "done"} /\ RigidTranslation /\ ~starved) => Translated(step)

C8_Witness ==
    /\ pc = "loop"
    /\ step = 2
    /\ RigidTranslation
    /\ ~starved
    /\ Len(d_particles) >= 1
    /\ time_step_size = Half

\* a configuration solve must not accept
InvalidConfiguration ==
    \/ d_mesh.nx <= 0 \/ d_mesh.ny <= 0 \/ d_mesh.nz <= 0
    \/ ~RPos(d_mesh.width)
    \/ ~RPos(time_step_size)
    \/ d_materials = <<>>
    \/ IsNull(d_bc)

(* C9: solve with an invalid configuration fails at its entry: no snapshot *)
(* is written, no kernel runs and the particle set stays as it was.        *)
C9_FailsAtSolveEntry ==
    (InSolve /\ InvalidConfiguration) =>
        /\ pc = "failed"
        /\ log = <<>>
        /\ d_particles = entry_particles

(* C10: the material table is indexed, and calculateStress dispatched,     *)
(* only with 0 <= matid < |materials|; an id out of range is a fatal       *)
(* error before updateParticleStressStrain uses it.                        *)
C10_MatidInRange ==
    \A id \in dispatch : ValidMatid(id, d_materials)

----------------------------------------------------------------------------
(* C11: solve neither adds, removes nor reorders particles, and the nodal  *)
(* arrays keep their length.                                               *)

\* the fields of a particle that no kernel of solve assigns
ParticleIdentity(p) == <<p.matid, p.m>>

\* the index set a nodal array is allocated with at the entry of solve
AllocatedNodes == 0 .. totalNumNodes(d_mesh) - 1

\* C11: at every point of solve, whatever the number of steps, d_particles
\* has the length it had when initialize returned and holds the same
\* particles at the same indices, and each of the five nodal arrays has
\* exactly the totalNumNodes elements it was allocated with.
C11_ParticlesAndNodalArraysFixed ==
    InSolve =>
        /\ Len(d_particles) = Len(entry_particles)
        /\ DOMAIN d_particles = DOMAIN entry_particles
        /\ \A i \in DOMAIN entry_particles :
               ParticleIdentity(d_particles[i]) = ParticleIdentity(entry_particles[i])
        /\ DOMAIN node_m = AllocatedNodes
        /\ DOMAIN node_v = AllocatedNodes
        /\ DOMAIN node_p = AllocatedNodes
        /\ DOMAIN node_imp = AllocatedNodes
        /\ DOMAIN node_f_int = AllocatedNodes

\* two distinguishable particles went through two whole steps, one of them
\* moved, and the periodic and the final snapshot were written
C11_Witness ==
    /\ pc = "done"
    /\ step = 2
    /\ Len(entry_particles) = 2
    /\ ParticleIdentity(entry_particles[1]) # ParticleIdentity(entry_particles[2])
    /\ d_particles[1].r # entry_particles[1].r
    /\ Len(Writes) = 4
    /\ C11_ParticlesAndNodalArraysFixed

----------------------------------------------------------------------------
(* C12: the momentum calculateNodalVelocity scatters, against node_p.      *)

\* the nodal momentum calculateNodalVelocity accumulates in node_v before it
\* divides by the mass, from the particles as they are when it is called
Rescattered == AssembleMomentum(ResetField(node_v), d_particles, 1, 0)

\* what updateParticlePositionAndVelocity added to component d of the
\* velocity of particle p: the impulse of its adjacent nodes with mass
VelocityIncrement(p, d) ==
    SumTo([n \in Locals |->
              IF RPos(node_m[p.node_ids[n]])
              THEN RDiv(RMul(node_imp[p.node_ids[n]][d], p.basis_values[n]),
                        node_m[p.node_ids[n]])
              ELSE Zero],
          nodesPerCell - 1)

\* component d of the momentum of these increments at node k
IncrementAtNode(k, d) ==
    SumParticles([i \in ParticleIds |->
        SumTo([n \in Locals |->
                  IF d_particles[i].node_ids[n] = k
                  THEN RMul(RMul(d_particles[i].m,
                                 VelocityIncrement(d_particles[i], d)),
                            d_particles[i].basis_values[n])
                  ELSE Zero],
              nodesPerCell - 1)])

\* no node that gave a particle an increment had an impulse
NoImpulse ==
    \A i \in ParticleIds, n \in Locals :
        RPos(node_m[d_particles[i].node_ids[n]])
            => node_imp[d_particles[i].node_ids[n]] = ZeroVec

\* C12 as stated: when calculateNodalVelocity is entered, the momentum it is
\* about to scatter from the particles equals, at every node, the node_p that
\* calculateNodalMomentum scattered in this step before its boundary
\* conditions.
C12_RescatterEqualsNodeP ==
    pc = "velocity" => Rescattered = scattered_p

\* C12, amended: when calculateNodalVelocity is entered, the momentum it is
\* about to scatter equals, at every node and component, the node_p scattered
\* in this step before its boundary conditions plus the momentum of the
\* velocity increments of the particle update; the two scatters, and the
\* nodal velocities they give, are equal when no node with mass adjacent to a
\* particle had an impulse.
C12_RescatterAfterUpdate ==
    pc = "velocity" =>
        /\ \A k \in Nodes, d \in Dims :
               Rescattered[k][d] = RAdd(scattered_p[k][d], IncrementAtNode(k, d))
        /\ NoImpulse =>
               /\ Rescattered = scattered_p
               /\ DivideByMass(Rescattered, node_m)
                      = DivideByMass(scattered_p, node_m)

\* in a run under gravity two particles have been updated, one of them
\* moving, and the momentum about to be scattered is not node_p
C12_Witness ==
    /\ pc = "velocity"
    /\ time_step_size = Half
    /\ d_has_gravity
    /\ Len(d_particles) = 2
    /\ \E k \in Nodes : Rescattered[k] # scattered_p[k]
    /\ \E k \in Nodes : scattered_p[k] # ZeroVec
    /\ C12_RescatterAfterUpdate

====
